---- MODULE Spec2Model ----
(***************************************************************************)
(* Model of src/app.py: QuantumRandomService (an ordered chain of entropy  *)
(* providers with fallback) and QuantumEnhancedOptimizer (byte-driven      *)
(* approach selection and template rendering).                             *)
(*                                                                         *)
(* Conventions.                                                            *)
(*  - A Python list is a TLA+ sequence: Python index k is TLA+ index k+1   *)
(*    (operator At).                                                       *)
(*  - A text is a sequence of string tokens; an f-string is the            *)
(*    concatenation of its literal pieces and interpolated values, so      *)
(*    "contains as a substring" is "contains as a contiguous run of        *)
(*    tokens".  Non-ASCII glyphs of the source (bullets, emoji) are        *)
(*    written in ASCII.                                                    *)
(*  - The float b/255 is kept exact as the integer numerator b over 255;   *)
(*    comparisons with 0.3 and 0.7 are done on scaled integers (no byte    *)
(*    hits a threshold exactly, so float rounding cannot change a band).   *)
(*  - The timestamp field (datetime.now()) is left out of the records.     *)
(***************************************************************************)
EXTENDS Integers, Sequences, FiniteSets, TLC

(***************************************************************************)
(* Bounds of the model (not program constants).                            *)
(***************************************************************************)
MaxVariations == 2   \* largest variation count of a generate call in Spec
MaxSeed == 4         \* byte blocks are drawn from seeds 0..MaxSeed
MaxCalls == 2        \* calls (generate or acquire) made on one optimizer
MaxLoopIter == 2     \* iterations granted to the while loop of line 386

(***************************************************************************)
(* Program constants.                                                      *)
(***************************************************************************)
GenerateNumBytes == 100    \* generate_variations asks for 100 bytes
DefaultNumBytes == 10      \* default of get_quantum_random(num_bytes)
ByteLimit == 256           \* secrets.randbits(8) is in 0..255; uint8
LevelDivisor == 255        \* quantum_bytes[k] / 255

VARIABLES
    api_calls_count,   \* QuantumRandomService.api_calls_count
    pc,                \* where the running call stands
    caller,            \* "generate", "direct" (a bare acquire) or "none"
    base_prompt,       \* generate_variations: base_prompt
    num_variations,    \* generate_variations: num_variations
    i,                 \* generate_variations: loop index
    variations,        \* generate_variations: variations
    used_approaches,   \* generate_variations: used_approaches
    num_bytes,         \* get_quantum_random: num_bytes
    quantum_data,      \* result of the last get_quantum_random, or NoData
    attempts,          \* history: provider attempts of the running acquire
    acquisitions,      \* history: get_quantum_random calls of the running call
    served_by,         \* history: the provider that answered each of them
    calls              \* history: calls made on this optimizer

vars == <<api_calls_count, pc, caller, base_prompt, num_variations, i,
          variations, used_approaches, num_bytes, quantum_data, attempts,
          acquisitions, served_by, calls>>

Range(s) == {s[k] : k \in DOMAIN s}

\* Python s[k] on a list, k >= 0
At(s, k) == s[k + 1]

\* Python s[k] raises IndexError unless k < len(s)
CanRead(s, k) == k < Len(s)

\* Python s[1:]
Slice1(s) == IF Len(s) = 0 THEN <<>> ELSE Tail(s)

\* Python "needle in haystack" on texts
Contains(t, p) ==
    \E k \in 0..(Len(t) - Len(p)) : SubSeq(t, k + 1, k + Len(p)) = p

\* Python sep.join(parts), parts a list of texts
RECURSIVE Join(_, _)
Join(parts, sep) ==
    IF Len(parts) = 0 THEN <<>>
    ELSE IF Len(parts) = 1 THEN parts[1]
    ELSE parts[1] \o <<sep>> \o Join(Tail(parts), sep)

(***************************************************************************)
(* self.components and self.approaches (lines 112-170).                    *)
(***************************************************************************)
Roles ==
    <<"expert", "teacher", "researcher", "critic", "analyst",
      "philosopher", "scientist", "artist", "engineer", "storyteller",
      "detective", "journalist", "therapist", "coach", "strategist",
      "historian", "futurist", "designer", "mentor", "explorer">>

ThinkingStyles ==
    <<"analytical", "creative", "systematic", "intuitive", "logical",
      "holistic", "critical", "lateral", "convergent", "divergent",
      "abstract", "concrete", "strategic", "tactical", "innovative">>

CommunicationTones ==
    <<"formal", "casual", "academic", "conversational", "professional",
      "friendly", "authoritative", "empathetic", "objective", "passionate",
      "humorous", "serious", "encouraging", "challenging", "collaborative">>

\* a template is a text whose placeholder is one token
Constraints ==
    << <<"using analogies from ", "{domain}">>,
       <<"in the style of ", "{author}">>,
       <<"as if explaining to ", "{audience}">>,
       <<"with ", "{emotion}", " undertone">>,
       <<"focusing on ", "{aspect}">>,
       <<"avoiding ", "{concept}">>,
       <<"emphasizing ", "{priority}">>,
       <<"through the lens of ", "{perspective}">>,
       <<"with examples from ", "{field}">>,
       <<"using only ", "{vocabulary_level}", " language">>,
       <<"as a ", "{format}", " format">>,
       <<"within ", "{constraint}", " constraint">> >>

Domains ==
    <<"cooking", "sports", "music", "nature", "technology", "art",
      "mathematics", "philosophy", "psychology", "physics", "biology",
      "economics", "history", "literature", "cinema", "architecture",
      "gaming", "fashion", "astronomy", "chemistry", "geography">>

Aspects ==
    <<"practical applications", "theoretical foundations", "historical context",
      "future implications", "ethical considerations", "common misconceptions",
      "real-world examples", "underlying principles", "potential risks",
      "creative possibilities", "cultural impact", "scientific basis",
      "economic factors", "social dynamics", "technical details">>

\* list(self.approaches.keys()), in declaration order
ApproachKeys ==
    <<"precision_mix", "creative_constraints", "parameter_optimization",
      "unexpected_connections", "dynamic_structure">>

\* self.approaches[key]
ApproachName(key) ==
    CASE key = "precision_mix" -> "Quantum-Calibrated Parameters"
      [] key = "creative_constraints" -> "Quantum Creative Constraints"
      [] key = "parameter_optimization" -> "Quantum Parameter Optimization"
      [] key = "unexpected_connections" -> "Quantum Cross-Domain Fusion"
      [] key = "dynamic_structure" -> "Quantum Structure Generation"

(***************************************************************************)
(* Byte-to-value conversions.                                              *)
(***************************************************************************)
\* components[...][byte % len(list)]
Pick(list, byte) == list[(byte % Len(list)) + 1]

\* f"{byte / 255:.1%}": the level as a percentage with one decimal; Permille
\* is the level times 1000 rounded to nearest (no byte falls on a tie)
Permille(byte) == (byte * 2000 + LevelDivisor) \div (2 * LevelDivisor)

Fmt1Pct(byte) ==
    ToString(Permille(byte) \div 10) \o "." \o ToString(Permille(byte) % 10) \o "%"

\* mutant of LevelGt: the level taken as byte / 256
LevelGtOver256(byte, tenths) == 10 * byte > tenths * ByteLimit

\* byte / 255 > tenths / 10   and   byte / 255 < tenths / 10
LevelGt(byte, tenths) == 10 * byte > tenths * LevelDivisor
LevelLt(byte, tenths) == 10 * byte < tenths * LevelDivisor

\* top if level > 0.7 else mid if level > 0.3 else bottom
BandGt(byte, top, mid, bottom) ==
    IF LevelGt(byte, 7) THEN top ELSE IF LevelGt(byte, 3) THEN mid ELSE bottom

\* bottom if level < 0.3 else mid if level < 0.7 else top
BandLt(byte, bottom, mid, top) ==
    IF LevelLt(byte, 3) THEN bottom ELSE IF LevelLt(byte, 7) THEN mid ELSE top

\* every cursor position in `positions` can be read
ReadsOk(qb, positions) == \A k \in positions : CanRead(qb, k)

(***************************************************************************)
(* _quantum_precision_mix (lines 224-265).                                 *)
(***************************************************************************)
PrecisionMixReadsOk(qb) == ReadsOk(qb, 0..6)

QuantumPrecisionMix(prompt, qb) ==
    LET technical == At(qb, 0)
        creativity == At(qb, 1)
        detail == At(qb, 2)
        formality == At(qb, 3)
        role == Pick(Roles, At(qb, 4))
        tone == Pick(CommunicationTones, At(qb, 5))
        style == Pick(ThinkingStyles, At(qb, 6))
    IN [prompt |->
            <<"You are a ", role, " with ", style, " thinking style.",
              "\n\nCalibration Parameters:",
              "\n* Technical Level: ", Fmt1Pct(technical), " - ",
              BandGt(technical, "highly technical", "moderately technical", "simplified"),
              "\n* Creativity Level: ", Fmt1Pct(creativity), " - ",
              BandGt(creativity, "highly creative", "balanced approach", "straightforward"),
              "\n* Detail Level: ", Fmt1Pct(detail), " - ",
              BandGt(detail, "comprehensive detail", "moderate detail", "concise"),
              "\n* Formality: ", Fmt1Pct(formality), " - ",
              BandGt(formality, "very formal", "professional", "casual"),
              "\n\nCommunication tone: ", tone,
              "\n\nTask: ">>
            \o prompt
            \o <<"\n\nYour response should precisely match these calibration parameters, creating a unique blend of technical accuracy, creative expression, and appropriate detail level.">>,
        parameters |->
            [technical |-> Fmt1Pct(technical),
             creativity |-> Fmt1Pct(creativity),
             detail |-> Fmt1Pct(detail),
             formality |-> Fmt1Pct(formality),
             role |-> role, tone |-> tone, style |-> style],
        description |->
            <<"Precision-calibrated ", role, " perspective with ", style, " thinking">>]

(***************************************************************************)
(* _quantum_creative_constraints (lines 267-323).                          *)
(***************************************************************************)
Audiences ==
    <<"a curious 5-year-old", "a skeptical teenager", "a busy executive",
      "an academic peer", "someone from the 1800s", "an alien visitor">>

Emotions == <<"curious", "playful", "serious", "inspiring", "mysterious", "urgent">>

Formats == <<"dialogue", "story", "recipe", "scientific paper", "poem", "news article">>

\* "{name}" in template
HasPlaceholder(template, placeholder) == placeholder \in Range(template)

\* template.replace("{name}", value)
Replace(template, placeholder, value) ==
    [k \in DOMAIN template |->
        IF template[k] = placeholder THEN value ELSE template[k]]

\* mutant of NumConstraints: the byte is not reduced modulo 3
NumConstraintsUnreduced(qb) == At(qb, 0) + 2

\* num_constraints = (quantum_bytes[0] % 3) + 2
NumConstraints(qb) == (At(qb, 0) % 3) + 2

\* the template picked for constraint number c (0-based), line 277-278
ConstraintTemplate(qb, c) == Pick(Constraints, At(qb, 1 + c * 4))

\* the cursor positions constraint number c reads after its template byte
ConstraintFillReads(qb, c) ==
    LET t == ConstraintTemplate(qb, c)
    IN (IF HasPlaceholder(t, "{domain}") THEN {2 + c * 4} ELSE {})
       \cup (IF HasPlaceholder(t, "{audience}") THEN {3 + c * 4} ELSE {})
       \cup (IF HasPlaceholder(t, "{emotion}") THEN {4 + c * 4} ELSE {})
       \cup (IF HasPlaceholder(t, "{aspect}") THEN {3 + c * 4} ELSE {})
       \cup (IF HasPlaceholder(t, "{format}") THEN {3 + c * 4} ELSE {})

CreativeConstraintsReadsOk(qb) ==
    /\ CanRead(qb, 0)
    /\ \A c \in 0..(NumConstraints(qb) - 1) :
          /\ CanRead(qb, 1 + c * 4)
          /\ ReadsOk(qb, ConstraintFillReads(qb, c))

\* one pass of the loop body, lines 277-305: the five "if ... in template"
\* blocks in source order
FillConstraint(qb, c) ==
    LET t0 == ConstraintTemplate(qb, c)
        t1 == IF HasPlaceholder(t0, "{domain}")
              THEN Replace(t0, "{domain}", Pick(Domains, At(qb, 2 + c * 4)))
              ELSE t0
        t2 == IF HasPlaceholder(t1, "{audience}")
              THEN Replace(t1, "{audience}", Pick(Audiences, At(qb, 3 + c * 4)))
              ELSE t1
        t3 == IF HasPlaceholder(t2, "{emotion}")
              THEN Replace(t2, "{emotion}", Pick(Emotions, At(qb, 4 + c * 4)))
              ELSE t2
        t4 == IF HasPlaceholder(t3, "{aspect}")
              THEN Replace(t3, "{aspect}", Pick(Aspects, At(qb, 3 + c * 4)))
              ELSE t3
        t5 == IF HasPlaceholder(t4, "{format}")
              THEN Replace(t4, "{format}", Pick(Formats, At(qb, 3 + c * 4)))
              ELSE t4
    IN t5

QuantumCreativeConstraints(prompt, qb) ==
    LET num_constraints == NumConstraints(qb)
        constraints == [c \in 1..num_constraints |-> FillConstraint(qb, c - 1)]
        bullets == [c \in 1..num_constraints |-> <<"* ">> \o constraints[c]]
    IN [prompt |->
            prompt
            \o <<"\n\nCreative Constraints:\n">>
            \o Join(bullets, "\n")
            \o <<"\n\nThese constraints should fundamentally shape your response, creating something unexpected yet coherent. The intersection of these constraints should produce insights that wouldn't emerge from \nconventional approaches.">>,
        parameters |->
            [constraints |-> constraints, constraint_count |-> num_constraints],
        description |->
            <<ToString(num_constraints), " quantum-selected creative constraints">>]

(***************************************************************************)
(* _quantum_parameter_optimization (lines 325-376).                        *)
(***************************************************************************)
ParamStructures ==
    <<"linear progression", "compare and contrast", "problem-solution",
      "chronological", "cause and effect", "hierarchical">>

\* mutant of NumFocus: the byte is reduced modulo 4
NumFocusModFour(qb) == (At(qb, 6) % 4) + 1

\* num_focus = (quantum_bytes[6] % 3) + 1
NumFocus(qb) == (At(qb, 6) % 3) + 1

ParameterOptimizationReadsOk(qb) ==
    /\ ReadsOk(qb, 0..6)
    /\ ReadsOk(qb, {7 + f : f \in 0..(NumFocus(qb) - 1)})
    /\ CanRead(qb, 10)

\* 's' if count > 1 else ''
Plural(count) == IF count > 1 THEN "s" ELSE ""

QuantumParameterOptimization(prompt, qb) ==
    LET word_count == 100 + (At(qb, 0) * 4)
        example_count == (At(qb, 1) % 4) + 1
        perspective_count == (At(qb, 2) % 3) + 1
        abstraction == At(qb, 3)
        confidence == 60 + (At(qb, 4) % 36)
        depth_variation == At(qb, 5)
        num_focus == NumFocus(qb)
        focus_areas == [f \in 1..num_focus |-> Pick(Aspects, At(qb, 7 + (f - 1)))]
        structure == Pick(ParamStructures, At(qb, 10))
    IN [prompt |->
            prompt
            \o <<"\n\nOptimization Parameters:",
                 "\n* Response length: ", ToString(word_count), " words (+-10%)",
                 "\n* Include exactly ", ToString(example_count),
                 " concrete example", Plural(example_count),
                 "\n* Present ", ToString(perspective_count),
                 " distinct perspective", Plural(perspective_count),
                 "\n* Abstraction level: ", Fmt1Pct(abstraction), " (",
                 BandLt(abstraction, "highly concrete", "balanced", "more abstract"), ")",
                 "\n* Confidence threshold: Only include points you're >",
                 ToString(confidence), "% confident about",
                 "\n* Depth variation: ", Fmt1Pct(depth_variation), " (",
                 BandLt(depth_variation, "consistent depth", "varied depth",
                        "dramatic depth changes"), ")",
                 "\n* Structure: ", structure,
                 "\n\nPrimary focus areas: ">>
            \o Join([f \in 1..num_focus |-> <<focus_areas[f]>>], ", ")
            \o <<"\n\nBalance these parameters to create an optimally informative response.">>,
        parameters |->
            [word_count |-> word_count,
             examples |-> example_count,
             perspectives |-> perspective_count,
             abstraction |-> Fmt1Pct(abstraction),
             confidence |-> ToString(confidence) \o "%",
             depth_variation |-> Fmt1Pct(depth_variation),
             structure |-> structure,
             focus_areas |-> focus_areas],
        description |->
            <<"Multi-parameter optimization with ", structure, " structure">>]

(***************************************************************************)
(* _quantum_unexpected_connections (lines 378-426).                        *)
(***************************************************************************)
FusionApproaches ==
    <<"analytical fusion", "creative synthesis", "systematic mapping",
      "intuitive bridging", "experimental combination">>

\* mutant of AdvanceDomain2: the "+ 1" forgotten
AdvanceDomain2NoStep(qb) == Domains[(At(qb, 1) % Len(Domains)) + 1]

\* the body of the while loop, line 387
AdvanceDomain2(qb) == Domains[((At(qb, 1) + 1) % Len(Domains)) + 1]

\* while domain2 == domain1: domain2 = ...   (lines 386-387), run for at
\* most `fuel` passes; exited tells whether the loop was left
RECURSIVE EnsureDifferent(_, _, _, _)
EnsureDifferent(domain1, domain2, qb, fuel) ==
    IF domain2 # domain1 THEN [exited |-> TRUE, domain2 |-> domain2,
                               passes |-> MaxLoopIter - fuel]
    ELSE IF fuel = 0 THEN [exited |-> FALSE, domain2 |-> domain2,
                           passes |-> MaxLoopIter]
    ELSE EnsureDifferent(domain1, AdvanceDomain2(qb), qb, fuel - 1)

\* domain1 and domain2 as lines 382-387 resolve them
FusionDomains(qb) ==
    LET domain1 == Pick(Domains, At(qb, 0))
        loop == EnsureDifferent(domain1, Pick(Domains, At(qb, 1)), qb, MaxLoopIter)
    IN [domain1 |-> domain1, domain2 |-> loop.domain2,
        exited |-> loop.exited, passes |-> loop.passes]

UnexpectedConnectionsReadsOk(qb) == ReadsOk(qb, 0..4)

\* the while loop of line 386 is left
UnexpectedConnectionsTerminates(qb) == FusionDomains(qb).exited

\* the five f-string connection sentences, lines 390-396
Connections(domain1, domain2) ==
    << <<"finding surprising parallels between ", domain1, " and ", domain2>>,
       <<"using ", domain1, " principles to illuminate ", domain2, " concepts">>,
       <<"discovering how ", domain1, " masters would approach ", domain2>>,
       <<"creating a synthesis of ", domain1, " and ", domain2, " thinking">>,
       <<"translating between ", domain1, " and ", domain2, " paradigms">> >>

QuantumUnexpectedConnections(prompt, qb) ==
    LET domain1 == FusionDomains(qb).domain1
        domain2 == FusionDomains(qb).domain2
        connection == Pick(Connections(domain1, domain2), At(qb, 2))
        metaphor_density == At(qb, 3)
        approach == Pick(FusionApproaches, At(qb, 4))
    IN [prompt |->
            prompt
            \o <<"\n\nApproach this by ">> \o connection
            \o <<".\n\nUse ", approach,
                 " to create unexpected insights. Metaphor density: ",
                 Fmt1Pct(metaphor_density), " (",
                 BandGt(metaphor_density, "heavy use of metaphors",
                        "moderate metaphors", "subtle connections"),
                 ").\n\nThe goal is to generate insights that would be impossible from within a single domain. Let the collision of ",
                 domain1, " and ", domain2,
                 " thinking create something genuinely new.">>,
        parameters |->
            [domain1 |-> domain1,
             domain2 |-> domain2,
             connection_type |-> connection,
             approach |-> approach,
             metaphor_density |-> Fmt1Pct(metaphor_density)],
        description |->
            <<"Unexpected fusion of ", domain1, " and ", domain2>>]

(***************************************************************************)
(* _quantum_dynamic_structure (lines 428-493).                             *)
(***************************************************************************)
\* each structure as its comma-separated parts (structure.split(','))
DynStructures ==
    << <<"Start with a paradox", " resolve it through exploration">>,
       <<"Build from first principles to complex conclusions">>,
       <<"Use alternating zoom (big picture <-> details)">>,
       <<"Create a narrative arc with tension and resolution">>,
       <<"Layer information like geological strata">>,
       <<"Spiral approach - revisit themes with deeper insight">>,
       <<"Dialectical - thesis", " antithesis", " synthesis">>,
       <<"Network structure - interconnected ideas">> >>

Rhythms ==
    <<"short sentences build to long, complex ones",
      "alternating simple and complex paragraphs",
      "staccato facts punctuated by flowing explanations",
      "gradual acceleration of ideas",
      "wave pattern - intense/relaxed/intense">>

Architectures ==
    <<"front-load key insights", "build suspense before revelation",
      "distribute insights evenly", "cluster complexity in the middle",
      "end with surprising synthesis">>

Transitions ==
    <<"smooth and connected", "sharp contrasts", "thematic bridges",
      "logical progression", "intuitive leaps">>

DynamicStructureReadsOk(qb) == ReadsOk(qb, 0..4)

QuantumDynamicStructure(prompt, qb) ==
    LET parts == Pick(DynStructures, At(qb, 0))
        structure == Join([k \in DOMAIN parts |-> <<parts[k]>>], ",")
        rhythm == Pick(Rhythms, At(qb, 1))
        architecture == Pick(Architectures, At(qb, 2))
        transition == Pick(Transitions, At(qb, 3))
        energy == At(qb, 4)
    IN [prompt |->
            prompt
            \o <<"\n\nStructural Blueprint:", "\n* Overall structure: ">>
            \o structure
            \o <<"\n* Rhythm: ", rhythm,
                 "\n* Information architecture: ", architecture,
                 "\n* Transitions: ", transition,
                 "\n* Energy level: ", Fmt1Pct(energy), " (",
                 BandGt(energy, "high energy throughout", "moderate pacing",
                        "calm and measured"),
                 ")\n\nThis structure should create a unique reading experience where form enhances meaning. The way you present the information should be as important as the information itself.">>,
        parameters |->
            [structure |-> structure,
             rhythm |-> rhythm,
             architecture |-> architecture,
             transitions |-> transition,
             energy |-> Fmt1Pct(energy)],
        description |->
            <<"Dynamic structure with ", parts[1]>>]

(***************************************************************************)
(* _select_approach (lines 213-222) and the dispatch of lines 188-197.     *)
(***************************************************************************)
\* mutant of Available: the used approaches are not filtered out
AvailableUnfiltered(used) == ApproachKeys

\* [a for a in approaches if a not in used], or all of them when that is empty
Available(used) ==
    LET NotUsed(a) == a \notin Range(used)
        unused == SelectSeq(ApproachKeys, NotUsed)
    IN IF Len(unused) = 0 THEN ApproachKeys ELSE unused

\* mutant of SelectApproach: the pick is shifted by the counter that the
\* service keeps from one call to the next
SelectApproachShifted(quantum_byte, used) ==
    Available(used)[((quantum_byte + api_calls_count) % Len(Available(used))) + 1]

SelectApproach(quantum_byte, used) ==
    Available(used)[(quantum_byte % Len(Available(used))) + 1]

\* the routine the if/elif chain of lines 188-197 calls reads only positions
\* the cursor has (otherwise it raises IndexError)
RenderReadsOk(approach, qb) ==
    CASE approach = "precision_mix" -> PrecisionMixReadsOk(qb)
      [] approach = "creative_constraints" -> CreativeConstraintsReadsOk(qb)
      [] approach = "parameter_optimization" -> ParameterOptimizationReadsOk(qb)
      [] approach = "unexpected_connections" -> UnexpectedConnectionsReadsOk(qb)
      [] OTHER -> DynamicStructureReadsOk(qb)

\* the routine returns (only the while loop of line 386 could spin)
RenderTerminates(approach, qb) ==
    approach = "unexpected_connections" => UnexpectedConnectionsTerminates(qb)

Render(approach, prompt, qb) ==
    CASE approach = "precision_mix" -> QuantumPrecisionMix(prompt, qb)
      [] approach = "creative_constraints" -> QuantumCreativeConstraints(prompt, qb)
      [] approach = "parameter_optimization" -> QuantumParameterOptimization(prompt, qb)
      [] approach = "unexpected_connections" -> QuantumUnexpectedConnections(prompt, qb)
      [] OTHER -> QuantumDynamicStructure(prompt, qb)

(***************************************************************************)
(* What the environment can hand to the program.                           *)
(***************************************************************************)
Seeds == 0..MaxSeed

\* a block of `count` byte values; its first byte is the seed, so the seeds
\* 0..4 reach every index of every approach pool
Block(seed, count) ==
    [k \in 1..count |->
        IF k = 1 THEN seed % ByteLimit
        ELSE (seed * 37 + (k - 1) * (11 + 6 * seed)) % ByteLimit]

IsByte(v) == v \in 0..(ByteLimit - 1)

\* payloads a physical provider can answer a request for `count` bytes with:
\* the well-formed ones, and an empty, a short and an out-of-range one
WellFormedPayloads(count) == {Block(seed, count) : seed \in Seeds}

MalformedPayloads(count) ==
    { <<>>,
      Block(0, 3),
      [k \in 1..count |-> ByteLimit + k] }

Payloads(count) == WellFormedPayloads(count) \cup MalformedPayloads(count)

\* responses of the ANU service: requests.get raising, an HTTP error status,
\* a body that is not JSON, or a JSON object with or without its keys
AnuFailures ==
    {[kind |-> k, success |-> FALSE, has_data |-> FALSE, data |-> <<>>] :
        k \in {"transport_error", "http_error", "bad_json"}}
    \cup {[kind |-> "json", success |-> FALSE, has_data |-> FALSE, data |-> <<>>],
          [kind |-> "json", success |-> TRUE, has_data |-> FALSE, data |-> <<>>]}

AnuResponses(count) ==
    AnuFailures
    \cup {[kind |-> "json", success |-> TRUE, has_data |-> TRUE, data |-> d] :
            d \in Payloads(count)}

\* responses of random.org: a text of lines, each a decimal integer, blank,
\* or something int() rejects
IntLine(v) == [kind |-> "int", value |-> v]
BlankLine == [kind |-> "blank", value |-> 0]
JunkLine == [kind |-> "junk", value |-> 0]

LinesOf(payload) == [k \in DOMAIN payload |-> IntLine(payload[k])]

RandomOrgFailures ==
    {[kind |-> k, lines |-> <<>>] : k \in {"transport_error", "http_error"}}
    \cup {[kind |-> "text", lines |-> <<IntLine(7), JunkLine>>]}

RandomOrgResponses(count) ==
    RandomOrgFailures
    \cup {[kind |-> "text", lines |-> LinesOf(d)] : d \in Payloads(count)}
    \cup {[kind |-> "text", lines |-> <<IntLine(1), BlankLine, IntLine(2)>>]}

(***************************************************************************)
(* QuantumRandomService: the three providers (lines 37-99).  Each returns  *)
(* ok (no exception), counted (api_calls_count += 1 was executed) and the  *)
(* result dictionary.                                                      *)
(***************************************************************************)
NoData ==
    [random_bytes |-> <<>>, source |-> "none", source_detail |-> "none",
     true_quantum |-> FALSE]

AnuLabel == "ANU Quantum Lab"
RandomOrgLabel == "Random.org"
SecureLabel == "Secure Random"

\* mutants of RandomOrgTrueQuantum and SecureTrueQuantum: the flag set
RandomOrgFlagSet == TRUE
SecureFlagSet == TRUE

\* the flag each provider puts into its result (lines 58, 85, 97)
AnuTrueQuantum == TRUE
RandomOrgTrueQuantum == FALSE
SecureTrueQuantum == FALSE

\* _get_anu_quantum: lines 45-47 raise on a transport error, an error status
\* or a body that is not JSON; line 49 raises unless success; line 52 counts;
\* line 55 raises KeyError when "data" is missing
GetAnuQuantum(resp) ==
    LET passed49 == resp.kind = "json" /\ resp.success
    IN [ok |-> passed49 /\ resp.has_data,
        counted |-> passed49,
        result |-> [random_bytes |-> resp.data,
                    source |-> AnuLabel,
                    source_detail |-> "Quantum vacuum fluctuations",
                    true_quantum |-> AnuTrueQuantum]]

\* [int(x) for x in text.strip().split('\n') if x]: blank lines are skipped,
\* int() raises ValueError on a junk line
ParsesRandomOrg(lines) == \A k \in DOMAIN lines : lines[k].kind # "junk"

ParseRandomOrg(lines) ==
    LET IsInt(l) == l.kind = "int"
        kept == SelectSeq(lines, IsInt)
    IN [k \in DOMAIN kept |-> kept[k].value]

\* _get_random_org: lines 75-76 raise on a transport error or error status,
\* line 78 parses, line 79 counts
GetRandomOrg(resp) ==
    LET parsed == resp.kind = "text" /\ ParsesRandomOrg(resp.lines)
    IN [ok |-> parsed,
        counted |-> parsed,
        result |-> [random_bytes |-> ParseRandomOrg(resp.lines),
                    source |-> RandomOrgLabel,
                    source_detail |-> "Atmospheric noise",
                    true_quantum |-> RandomOrgTrueQuantum]]

\* _get_secure_random: [secrets.randbits(8) for _ in range(num_bytes)]
GetSecureRandom(bytes) ==
    [ok |-> TRUE,
     counted |-> FALSE,
     result |-> [random_bytes |-> bytes,
                 source |-> SecureLabel,
                 source_detail |-> "Cryptographic pseudorandom (fallback)",
                 true_quantum |-> SecureTrueQuantum]]

(***************************************************************************)
(* The state machine.  pc: "idle" (no call runs), "anu", "random_org",     *)
(* "secure" (get_quantum_random is about to try that provider),            *)
(* "acquired" (get_quantum_random returned quantum_data), "returned" (the  *)
(* call returned to its caller), "raised" (an exception left the call),    *)
(* "hung" (a loop never ends).                                             *)
(***************************************************************************)
Init ==
    /\ api_calls_count = 0
    /\ pc = "idle"
    /\ caller = "none"
    /\ base_prompt = <<>>
    /\ num_variations = 0
    /\ i = 0
    /\ variations = <<>>
    /\ used_approaches = <<>>
    /\ num_bytes = 0
    /\ quantum_data = NoData
    /\ attempts = <<>>
    /\ acquisitions = 0
    /\ served_by = <<>>
    /\ calls = 0

\* the non-empty prompt a caller passes (the first example of line 590)
ValidPrompts == { <<"Explain ", "quantum computing">> }

\* variation counts a caller passes
VariationCounts == (-1)..MaxVariations

\* byte counts of a bare acquire
AcquireCounts == {1, DefaultNumBytes}

\* generate_variations(prompt, n) up to its first get_quantum_random call
\* (lines 172-180); with range(n) empty it returns [] at once (line 211)
GenerateVariations(prompt, n) ==
    /\ pc = "idle"
    /\ calls < MaxCalls
    /\ calls' = calls + 1
    /\ caller' = "generate"
    /\ base_prompt' = prompt
    /\ num_variations' = n
    /\ i' = 0
    /\ variations' = <<>>
    /\ used_approaches' = <<>>
    /\ served_by' = <<>>
    /\ IF n > 0
       THEN /\ pc' = "anu"
            /\ num_bytes' = GenerateNumBytes
            /\ attempts' = <<>>
            /\ acquisitions' = 1
       ELSE /\ pc' = "returned"
            /\ acquisitions' = 0
            /\ UNCHANGED <<num_bytes, attempts>>
    /\ UNCHANGED <<api_calls_count, quantum_data>>

\* a caller invoking get_quantum_random(count) itself
GetQuantumRandom(count) ==
    /\ pc = "idle"
    /\ calls < MaxCalls
    /\ calls' = calls + 1
    /\ caller' = "direct"
    /\ pc' = "anu"
    /\ num_bytes' = count
    /\ attempts' = <<>>
    /\ acquisitions' = 1
    /\ served_by' = <<>>
    /\ UNCHANGED <<api_calls_count, base_prompt, num_variations, i, variations,
                   used_approaches, quantum_data>>

\* one provider attempt of get_quantum_random: the try block, and the
\* except clause that moves on to `next_pc`
Attempt(name, outcome, next_pc) ==
    /\ attempts' = Append(attempts, [provider |-> name, ok |-> outcome.ok])
    /\ api_calls_count' = api_calls_count + (IF outcome.counted THEN 1 ELSE 0)
    /\ IF outcome.ok
       THEN /\ quantum_data' = outcome.result
            /\ served_by' = Append(served_by, name)
            /\ pc' = "acquired"
       ELSE /\ pc' = next_pc
            /\ UNCHANGED <<quantum_data, served_by>>
    /\ UNCHANGED <<caller, base_prompt, num_variations, i, variations,
                   used_approaches, num_bytes, acquisitions, calls>>

\* mutant of TryAnu: a failure of the primary skips the secondary
TryAnuSkippingSecondary(resp) ==
    /\ pc = "anu"
    /\ Attempt("anu", GetAnuQuantum(resp), "secure")

\* lines 25-28
TryAnu(resp) ==
    /\ pc = "anu"
    /\ Attempt("anu", GetAnuQuantum(resp), "random_org")

\* mutant of TryRandomOrg: the exception of the secondary is not caught
TryRandomOrgUncaught(resp) ==
    /\ pc = "random_org"
    /\ Attempt("random_org", GetRandomOrg(resp), "raised")

\* lines 31-34
TryRandomOrg(resp) ==
    /\ pc = "random_org"
    /\ Attempt("random_org", GetRandomOrg(resp), "secure")

\* line 35
TrySecureRandom(bytes) ==
    /\ pc = "secure"
    /\ Attempt("secure", GetSecureRandom(bytes), "raised")

\* the record of lines 199-209
VariationRecord(id, approach, result, data) ==
    [id |-> id,
     prompt |-> result.prompt,
     approach |-> ApproachName(approach),
     approach_key |-> approach,
     parameters |-> result.parameters,
     quantum_source |-> data.source,
     quantum_verified |-> data.true_quantum,
     description |-> result.description]

\* mutant of RenderVariation: the next pass renders from the block already
\* held instead of acquiring another one
RenderVariationReusingBlock ==
    /\ pc = "acquired"
    /\ caller = "generate"
    /\ LET quantum_bytes == quantum_data.random_bytes
       IN IF ~CanRead(quantum_bytes, 0)
          THEN \* quantum_bytes[0] raises IndexError
               /\ pc' = "raised"
               /\ UNCHANGED <<i, variations, used_approaches, num_bytes,
                              attempts, acquisitions>>
          ELSE LET approach == SelectApproach(At(quantum_bytes, 0), used_approaches)
                   cursor == Slice1(quantum_bytes)
               IN /\ used_approaches' = Append(used_approaches, approach)
                  /\ IF ~RenderReadsOk(approach, cursor)
                     THEN \* the routine raises IndexError
                          /\ pc' = "raised"
                          /\ UNCHANGED <<i, variations, num_bytes, attempts,
                                         acquisitions>>
                     ELSE IF ~RenderTerminates(approach, cursor)
                     THEN /\ pc' = "hung"
                          /\ UNCHANGED <<i, variations, num_bytes, attempts,
                                         acquisitions>>
                     ELSE /\ variations' =
                                Append(variations,
                                       VariationRecord(i + 1, approach,
                                           Render(approach, base_prompt, cursor),
                                           quantum_data))
                          /\ i' = i + 1
                          /\ pc' = IF i + 1 < num_variations
                                   THEN "acquired" ELSE "returned"
                          /\ UNCHANGED <<num_bytes, attempts, acquisitions>>
    /\ UNCHANGED <<api_calls_count, caller, base_prompt, num_variations,
                   quantum_data, served_by, calls>>

\* the rest of one pass of the loop, lines 181-209, and the step to the
\* next pass (line 178) or to the return (line 211)
RenderVariation ==
    /\ pc = "acquired"
    /\ caller = "generate"
    /\ LET quantum_bytes == quantum_data.random_bytes
       IN IF ~CanRead(quantum_bytes, 0)
          THEN \* quantum_bytes[0] raises IndexError
               /\ pc' = "raised"
               /\ UNCHANGED <<i, variations, used_approaches, num_bytes,
                              attempts, acquisitions>>
          ELSE LET approach == SelectApproach(At(quantum_bytes, 0), used_approaches)
                   cursor == Slice1(quantum_bytes)
               IN /\ used_approaches' = Append(used_approaches, approach)
                  /\ IF ~RenderReadsOk(approach, cursor)
                     THEN \* the routine raises IndexError
                          /\ pc' = "raised"
                          /\ UNCHANGED <<i, variations, num_bytes, attempts,
                                         acquisitions>>
                     ELSE IF ~RenderTerminates(approach, cursor)
                     THEN /\ pc' = "hung"
                          /\ UNCHANGED <<i, variations, num_bytes, attempts,
                                         acquisitions>>
                     ELSE /\ variations' =
                                Append(variations,
                                       VariationRecord(i + 1, approach,
                                           Render(approach, base_prompt, cursor),
                                           quantum_data))
                          /\ i' = i + 1
                          /\ IF i + 1 < num_variations
                             THEN /\ pc' = "anu"
                                  /\ num_bytes' = GenerateNumBytes
                                  /\ attempts' = <<>>
                                  /\ acquisitions' = acquisitions + 1
                             ELSE /\ pc' = "returned"
                                  /\ UNCHANGED <<num_bytes, attempts, acquisitions>>
    /\ UNCHANGED <<api_calls_count, caller, base_prompt, num_variations,
                   quantum_data, served_by, calls>>

\* a bare get_quantum_random hands its result to its caller
ReturnData ==
    /\ pc = "acquired"
    /\ caller = "direct"
    /\ pc' = "returned"
    /\ UNCHANGED <<api_calls_count, caller, base_prompt, num_variations, i,
                   variations, used_approaches, num_bytes, quantum_data,
                   attempts, acquisitions, served_by, calls>>

\* the call is over: its locals are gone, the service keeps its counter
Finish ==
    /\ pc \in {"returned", "raised"}
    /\ pc' = "idle"
    /\ caller' = "none"
    /\ base_prompt' = <<>>
    /\ num_variations' = 0
    /\ i' = 0
    /\ variations' = <<>>
    /\ used_approaches' = <<>>
    /\ num_bytes' = 0
    /\ quantum_data' = NoData
    /\ attempts' = <<>>
    /\ acquisitions' = 0
    /\ served_by' = <<>>
    /\ UNCHANGED <<api_calls_count, calls>>

\* the byte counts a request can carry, and per count what each provider
\* can answer or draw
RequestCounts == AcquireCounts \cup {GenerateNumBytes}
AnuAnswers == [count \in RequestCounts |-> AnuResponses(count)]
RandomOrgAnswers == [count \in RequestCounts |-> RandomOrgResponses(count)]
SecureDraws == [count \in RequestCounts |-> WellFormedPayloads(count)]

\* the calls a caller makes: every variation count with the valid prompt,
\* and the empty prompt
Requests == (ValidPrompts \X VariationCounts) \cup ({ <<>> } \X {1})

Next ==
    \/ \E req \in Requests : GenerateVariations(req[1], req[2])
    \/ \E count \in AcquireCounts : GetQuantumRandom(count)
    \/ pc = "anu" /\ \E resp \in AnuAnswers[num_bytes] : TryAnu(resp)
    \/ pc = "random_org" /\ \E resp \in RandomOrgAnswers[num_bytes] : TryRandomOrg(resp)
    \/ pc = "secure" /\ \E bytes \in SecureDraws[num_bytes] : TrySecureRandom(bytes)
    \/ RenderVariation
    \/ ReturnData
    \/ Finish

Spec == Init /\ [][Next]_vars

(***************************************************************************)
(* Claims checked under Spec.                                              *)
(***************************************************************************)

\* C1 (as claimed): a generate call with a non-empty prompt and n >= 1 ends
\* by returning exactly n records, the k-th with id k, each with a non-empty
\* prompt that contains the base prompt as a contiguous run.
C1_ReturnsExactlyN ==
    (/\ caller = "generate"
     /\ base_prompt # <<>>
     /\ num_variations >= 1
     /\ pc \in {"returned", "raised", "hung"})
    => /\ pc = "returned"
       /\ Len(variations) = num_variations
       /\ \A k \in DOMAIN variations :
             /\ variations[k].id = k
             /\ variations[k].prompt # <<>>
             /\ Contains(variations[k].prompt, base_prompt)

\* C2: no exception leaves get_quantum_random: a call raises only in the
\* rendering of generate_variations, after its acquisition returned; every
\* failed attempt moves the chain one provider on, and after two failures
\* the local fallback answers.
C2_FailuresAbsorbed ==
    /\ pc = "raised" => (caller = "generate" /\ Len(served_by) = acquisitions)
    /\ pc = "random_org" => (Len(attempts) = 1 /\ ~attempts[1].ok)
    /\ pc = "secure" => (Len(attempts) = 2 /\ ~attempts[1].ok /\ ~attempts[2].ok)
    /\ (pc = "acquired" /\ Len(attempts) >= 2 /\ ~attempts[1].ok /\ ~attempts[2].ok)
       => /\ Len(attempts) = 3
          /\ attempts[3] = [provider |-> "secure", ok |-> TRUE]
          /\ quantum_data.source = SecureLabel

\* C2 witness: a bare acquire was answered by the fallback after both
\* physical providers failed.
C2_Witness ==
    /\ pc = "returned"
    /\ caller = "direct"
    /\ Len(attempts) = 3
    /\ quantum_data.source = SecureLabel

\* C3: the attempts of one acquire follow the chain order, every attempt but
\* the last one failed, and an acquire that has returned ends with the one
\* successful attempt, whose result is the one returned.
C3_PriorityOrder ==
    LET chain == <<"anu", "random_org", "secure">>
        labels == <<AnuLabel, RandomOrgLabel, SecureLabel>>
    IN /\ Len(attempts) <= 3
       /\ \A k \in DOMAIN attempts :
             /\ attempts[k].provider = chain[k]
             /\ k < Len(attempts) => ~attempts[k].ok
       /\ pc \in {"anu", "random_org", "secure"} =>
             /\ \A k \in DOMAIN attempts : ~attempts[k].ok
             /\ pc = chain[Len(attempts) + 1]
       /\ (pc = "acquired" \/ (pc = "returned" /\ caller = "direct")) =>
             /\ Len(attempts) >= 1
             /\ attempts[Len(attempts)].ok
             /\ quantum_data.source = labels[Len(attempts)]
             /\ served_by[Len(served_by)] = chain[Len(attempts)]

\* C3 witness: the secondary provider answered after the primary failed.
C3_Witness ==
    /\ pc = "acquired"
    /\ Len(attempts) = 2
    /\ quantum_data.source = RandomOrgLabel

C6_InvalidInputRejected ==
    (caller = "generate" /\ (base_prompt = <<>> \/ num_variations <= 0))
    => /\ acquisitions = 0
       /\ pc = "raised"

\* C10 (as claimed): whichever provider answered, the acquired result holds
\* exactly the requested number of values, each in 0..255.
C10_ExactlyCountBytes ==
    pc = "acquired" =>
        /\ Len(quantum_data.random_bytes) = num_bytes
        /\ \A k \in DOMAIN quantum_data.random_bytes :
              IsByte(quantum_data.random_bytes[k])

\* C12: generate calls on one optimizer are independent. Every call starts
\* with an empty list of used approaches; its first record uses the approach
\* at index (first byte mod 5) of the declared order, whatever calls came
\* before; and the approach of each later record depends only on the first
\* byte of its block and on the earlier records of the same call, the text on
\* the approach, the prompt and the rest of the block.
C12_CallsIndependent ==
    /\ (caller = "generate" /\ pc = "anu" /\ i = 0) => used_approaches = <<>>
    /\ (caller = "generate" /\ pc \notin {"raised", "hung"})
          => used_approaches = [k \in DOMAIN variations |-> variations[k].approach_key]
    /\ (/\ caller = "generate"
        /\ Len(variations) >= 1
        /\ Len(served_by) = Len(variations))
       => LET last == Len(variations)
              block == quantum_data.random_bytes
              earlier == { variations[k].approach_key : k \in 1..(last - 1) }
              Unused(a) == a \notin earlier
              left == SelectSeq(ApproachKeys, Unused)
              pool == IF left = <<>> THEN ApproachKeys ELSE left
          IN /\ last = 1 =>
                   variations[1].approach_key
                       = ApproachKeys[(At(block, 0) % Len(ApproachKeys)) + 1]
             /\ variations[last].approach_key
                   = pool[(At(block, 0) % Len(pool)) + 1]
             /\ variations[last].prompt
                   = Render(variations[last].approach_key, base_prompt,
                            Slice1(block)).prompt

\* C12 witness: the second call on an optimizer whose counter an earlier call
\* has raised rendered its first record, from a block whose first byte picks
\* another approach than the first of the declared order.
C12_Witness ==
    /\ calls = 2
    /\ api_calls_count > 0
    /\ caller = "generate"
    /\ Len(variations) = 1
    /\ Len(served_by) = 1
    /\ At(quantum_data.random_bytes, 0) % Len(ApproachKeys) # 0

\* C14 (as claimed): the counter of successful external calls grows by
\* exactly 1 in a step that completes an acquisition with bytes of the
\* primary or of the secondary provider, and no other step changes it:
\* not a failed attempt, not an acquisition served by the local fallback.
C14_CounterCountsPhysical ==
    [][api_calls_count' = api_calls_count +
          (IF /\ Len(served_by') = Len(served_by) + 1
              /\ served_by'[Len(served_by')] \in {"anu", "random_org"}
           THEN 1 ELSE 0)]_vars

\* C15 (as claimed): a creative-constraints record lists 2 + (byte mod 3)
\* constraints, between 2 and 4, and no placeholder of any template is left
\* in a listed constraint or in the rendered prompt.
C15_ConstraintsResolved ==
    LET placeholders ==
            {"{domain}", "{author}", "{audience}", "{emotion}", "{aspect}",
             "{concept}", "{priority}", "{perspective}", "{field}",
             "{vocabulary_level}", "{format}", "{constraint}"}
    IN \A k \in DOMAIN variations :
          variations[k].approach_key = "creative_constraints" =>
             LET listed == variations[k].parameters.constraints
                 count == variations[k].parameters.constraint_count
             IN /\ count \in 2..4
                /\ Len(listed) = count
                /\ (k = Len(variations) /\ Len(served_by) = k)
                      => count = 2 + (At(quantum_data.random_bytes, 1) % 3)
                /\ \A c \in DOMAIN listed :
                      Range(listed[c]) \cap placeholders = {}
                /\ Range(variations[k].prompt) \cap placeholders = {}

\* C17: a generate call acquires one block of 100 bytes per variation, one
\* after another. While the k-th acquisition is under way or just completed,
\* k - 1 records exist; the k-th record is appended before the next
\* acquisition is requested and is rendered from the block of the k-th
\* acquisition, whose source label and flag it carries; a call that returns
\* n records has made exactly n acquisitions.
C17_OneAcquisitionPerRecord ==
    LET label(name) == CASE name = "anu" -> AnuLabel
                         [] name = "random_org" -> RandomOrgLabel
                         [] OTHER -> SecureLabel
        flag(name) == CASE name = "anu" -> AnuTrueQuantum
                        [] name = "random_org" -> RandomOrgTrueQuantum
                        [] OTHER -> SecureTrueQuantum
        done == Len(variations)
    IN caller = "generate" =>
        /\ pc \in {"anu", "random_org", "secure"} =>
              /\ num_bytes = GenerateNumBytes
              /\ acquisitions = done + 1
              /\ Len(served_by) = done
        /\ pc = "acquired" =>
              /\ acquisitions = done + 1
              /\ Len(served_by) = acquisitions
        /\ pc = "returned" =>
              /\ done = (IF num_variations > 0 THEN num_variations ELSE 0)
              /\ acquisitions = done
              /\ Len(served_by) = done
        /\ acquisitions <= (IF num_variations > 0 THEN num_variations ELSE 0)
        /\ \A k \in DOMAIN variations :
              /\ variations[k].quantum_source = label(served_by[k])
              /\ variations[k].quantum_verified = flag(served_by[k])
        /\ (done >= 1 /\ Len(served_by) = done) =>
              variations[done]
                 = VariationRecord(done, variations[done].approach_key,
                       Render(variations[done].approach_key, base_prompt,
                              Slice1(quantum_data.random_bytes)),
                       quantum_data)

\* C17 witness: a call for two variations returned two records, the first
\* built from an acquisition the secondary provider served and the second
\* from one the local fallback served.
C17_Witness ==
    /\ pc = "returned"
    /\ caller = "generate"
    /\ num_variations = 2
    /\ acquisitions = 2
    /\ served_by = <<"random_org", "secure">>
    /\ variations[1].quantum_source = RandomOrgLabel
    /\ variations[2].quantum_source = SecureLabel

(***************************************************************************)
(* SpecFallback: one generate call on an optimizer whose two physical      *)
(* providers fail at every attempt, with variation counts up to one more   *)
(* than the number of approaches (the first count at which an approach     *)
(* must repeat).                                                           *)
(***************************************************************************)
PoolVariations == Len(ApproachKeys) + 1

NextFallback ==
    \/ calls = 0 /\ \E prompt \in ValidPrompts, n \in 1..PoolVariations :
                        GenerateVariations(prompt, n)
    \/ pc = "anu" /\ \E resp \in AnuFailures : TryAnu(resp)
    \/ pc = "random_org" /\ \E resp \in RandomOrgFailures : TryRandomOrg(resp)
    \/ pc = "secure" /\ \E bytes \in SecureDraws[num_bytes] : TrySecureRandom(bytes)
    \/ RenderVariation
    \/ Finish

SpecFallback == Init /\ [][NextFallback]_vars

(***************************************************************************)
(* Claims checked under SpecFallback.                                      *)
(***************************************************************************)

\* C5: within one generate call a record repeats the approach of an earlier
\* record only if all five approaches were used by earlier records; so the
\* first min(n, 5) records use pairwise distinct approaches, five records
\* use each approach exactly once, and two consecutive records share an
\* approach only after every approach has been used.
C5_NoRepeatWhileUnused ==
    LET key(k) == variations[k].approach_key
        before(k) == {key(j) : j \in 1..(k - 1)}
    IN /\ \A k \in DOMAIN variations :
             key(k) \in before(k) => before(k) = Range(ApproachKeys)
       /\ \A j, k \in DOMAIN variations :
             (j < k /\ k <= Len(ApproachKeys)) => key(j) # key(k)
       /\ Len(variations) >= Len(ApproachKeys) =>
             \A a \in Range(ApproachKeys) :
                 Cardinality({k \in 1..Len(ApproachKeys) : key(k) = a}) = 1
       /\ \A k \in DOMAIN variations :
             (k > 1 /\ key(k) = key(k - 1)) => before(k) = Range(ApproachKeys)

\* C5 witness: a sixth record repeats an approach after the first five used
\* all of them.
C5_Witness ==
    /\ Len(variations) = Len(ApproachKeys) + 1
    /\ \E k \in 1..Len(ApproachKeys) :
          variations[k].approach_key =
              variations[Len(ApproachKeys) + 1].approach_key

\* C7: with both physical providers failing at every attempt, a generate
\* call never raises nor hangs, it returns n records, and every record has
\* the flag false and the local fallback's label.
C7_FallbackOnly ==
    /\ pc \notin {"raised", "hung"}
    /\ pc = "returned" => Len(variations) = num_variations
    /\ \A k \in DOMAIN variations :
          /\ variations[k].quantum_verified = FALSE
          /\ variations[k].quantum_source = SecureLabel
          /\ served_by[k] = "secure"

\* C7 witness: a call for as many variations as SpecFallback allows returned
\* them all.
C7_Witness ==
    /\ pc = "returned"
    /\ num_variations = PoolVariations
    /\ Len(variations) = PoolVariations
    /\ api_calls_count > 0

(***************************************************************************)
(* SpecTwoRounds: one generate call for twice as many variations as there  *)
(* are approaches, on a machine that reaches neither physical provider, so *)
(* that every block is a local draw; the draws start with one of two bytes.*)
(***************************************************************************)
TwoRoundsVariations == 2 * Len(ApproachKeys)

\* requests.get raising (lines 45 and 75): the provider is not reachable
AnuUnreachable == {resp \in AnuFailures : resp.kind = "transport_error"}
RandomOrgUnreachable == {resp \in RandomOrgFailures : resp.kind = "transport_error"}

\* the local draws of SpecTwoRounds
TwoRoundsDraws(count) == {Block(seed, count) : seed \in {1, MaxSeed}}

NextTwoRounds ==
    \/ calls = 0 /\ \E prompt \in ValidPrompts :
                        GenerateVariations(prompt, TwoRoundsVariations)
    \/ pc = "anu" /\ \E resp \in AnuUnreachable : TryAnu(resp)
    \/ pc = "random_org" /\ \E resp \in RandomOrgUnreachable : TryRandomOrg(resp)
    \/ pc = "secure" /\ \E bytes \in TwoRoundsDraws(num_bytes) : TrySecureRandom(bytes)
    \/ RenderVariation
    \/ Finish

SpecTwoRounds == Init /\ [][NextTwoRounds]_vars

\* C13 (as claimed): the pool is refilled when it is empty and removal starts
\* again: each record uses the approach at index (first byte mod pool size)
\* of the approaches not yet used in its round of five, and in a call for 10
\* variations records 6 to 10 use each of the five approaches exactly once.
C13_PoolRefilled ==
    LET size == Len(ApproachKeys)
        last == Len(variations)
    IN /\ (caller = "generate" /\ last >= 1 /\ Len(served_by) = last)
          => LET round_start == ((last - 1) \div size) * size
                 in_round == { variations[k].approach_key :
                                  k \in (round_start + 1)..(last - 1) }
                 Unused(a) == a \notin in_round
                 pool == SelectSeq(ApproachKeys, Unused)
             IN variations[last].approach_key
                   = pool[(At(quantum_data.random_bytes, 0) % Len(pool)) + 1]
       /\ (caller = "generate" /\ last = 2 * size)
          => { variations[k].approach_key : k \in (size + 1)..(2 * size) }
                = Range(ApproachKeys)

(***************************************************************************)
(* SpecFusion: one generate call for one variation whose block selects     *)
(* cross-domain fusion (first byte 3 with nothing used yet) and carries    *)
(* every pair of byte values at cursor positions 0 and 1.                  *)
(***************************************************************************)
FusionBlock(b0, b1, count) ==
    [k \in 1..count |->
        IF k = 1 THEN 3
        ELSE IF k = 2 THEN b0
        ELSE IF k = 3 THEN b1
        ELSE (k * 7) % ByteLimit]

FusionBlocks(count) ==
    {FusionBlock(b0, b1, count) :
        b0 \in 0..(ByteLimit - 1), b1 \in 0..(ByteLimit - 1)}

NextFusion ==
    \/ calls = 0 /\ \E prompt \in ValidPrompts : GenerateVariations(prompt, 1)
    \/ pc = "anu" /\ \E resp \in AnuFailures : TryAnu(resp)
    \/ pc = "random_org" /\ \E resp \in RandomOrgFailures : TryRandomOrg(resp)
    \/ pc = "secure" /\ \E bytes \in FusionBlocks(num_bytes) : TrySecureRandom(bytes)
    \/ RenderVariation
    \/ Finish

SpecFusion == Init /\ [][NextFusion]_vars

\* C8: for every pair of bytes at cursor positions 0 and 1 the fusion
\* routine returns (it neither spins in its loop nor raises), domain1 and
\* domain2 differ, domain1 is the entry the first byte selects, and domain2
\* is the entry the second byte selects unless both select the same index,
\* in which case it is the entry one position later, wrapping to the first.
C8_DistinctDomains ==
    /\ pc \notin {"hung", "raised"}
    /\ \A k \in DOMAIN variations :
          LET b0 == At(quantum_data.random_bytes, 1)
              b1 == At(quantum_data.random_bytes, 2)
              n == Len(Domains)
              first == b0 % n
              second == b1 % n
              later == IF second = n - 1 THEN 0 ELSE second + 1
              par == variations[k].parameters
          IN /\ variations[k].approach_key = "unexpected_connections"
             /\ par.domain1 # par.domain2
             /\ par.domain1 = Domains[first + 1]
             /\ par.domain2 = Domains[(IF first = second THEN later ELSE second) + 1]

\* C8 witness: both bytes selected the last entry of the domain list and the
\* record was built, with domain2 wrapped to the first entry.
C8_Witness ==
    /\ pc = "returned"
    /\ Len(variations) = 1
    /\ At(quantum_data.random_bytes, 1) % Len(Domains) = Len(Domains) - 1
    /\ At(quantum_data.random_bytes, 2) % Len(Domains) = Len(Domains) - 1
    /\ variations[1].parameters.domain2 = Domains[1]

(***************************************************************************)
(* SpecBands: one generate call for one variation whose block selects each *)
(* approach in turn and carries the same byte value, every one of 0..255,  *)
(* at all cursor positions.                                                *)
(***************************************************************************)
BandBlock(first, b, count) ==
    [k \in 1..count |-> IF k = 1 THEN first ELSE b]

BandBlocks(count) ==
    {BandBlock(first, b, count) : first \in 0..(Len(ApproachKeys) - 1),
                                  b \in 0..(ByteLimit - 1)}

NextBands ==
    \/ calls = 0 /\ \E prompt \in ValidPrompts : GenerateVariations(prompt, 1)
    \/ pc = "anu" /\ \E resp \in AnuFailures : TryAnu(resp)
    \/ pc = "random_org" /\ \E resp \in RandomOrgFailures : TryRandomOrg(resp)
    \/ pc = "secure" /\ \E bytes \in BandBlocks(num_bytes) : TrySecureRandom(bytes)
    \/ RenderVariation
    \/ Finish

SpecBands == Init /\ [][NextBands]_vars

\* the texts of the percentages 0.0% to 100.0% (used by C9)
C9_Percents ==
    {ToString(p \div 10) \o "." \o ToString(p % 10) \o "%" : p \in 0..1000}

\* C9: for every byte b, each of the eight banded levels is shown as a
\* percentage between 0.0% and 100.0%, and the band printed after it is the
\* top one exactly when b >= 179, the middle one exactly when 77 <= b <= 178
\* and the bottom one exactly when b <= 76, also for the two levels of
\* multi-parameter-optimization that are compared with '<'.
C9_BandsPartition ==
    \A k \in DOMAIN variations :
        LET b == At(quantum_data.random_bytes, 1)
            text == variations[k].prompt
            key == variations[k].approach_key
            \* heading token of each banded level, with its bands top-down
            levels ==
                CASE key = "precision_mix" ->
                       { <<"\n* Technical Level: ", "highly technical",
                           "moderately technical", "simplified">>,
                         <<"\n* Creativity Level: ", "highly creative",
                           "balanced approach", "straightforward">>,
                         <<"\n* Detail Level: ", "comprehensive detail",
                           "moderate detail", "concise">>,
                         <<"\n* Formality: ", "very formal", "professional",
                           "casual">> }
                  [] key = "parameter_optimization" ->
                       { <<"\n* Abstraction level: ", "more abstract",
                           "balanced", "highly concrete">>,
                         <<"\n* Depth variation: ", "dramatic depth changes",
                           "varied depth", "consistent depth">> }
                  [] key = "unexpected_connections" ->
                       { <<" to create unexpected insights. Metaphor density: ",
                           "heavy use of metaphors", "moderate metaphors",
                           "subtle connections">> }
                  [] key = "dynamic_structure" ->
                       { <<"\n* Energy level: ", "high energy throughout",
                           "moderate pacing", "calm and measured">> }
                  [] OTHER -> {}
            expected(l) == IF b >= 179 THEN l[2] ELSE IF b >= 77 THEN l[3] ELSE l[4]
        IN \A l \in levels :
              \E pos \in DOMAIN text :
                 /\ text[pos] = l[1]
                 /\ text[pos + 1] \in C9_Percents
                 /\ text[pos + 3] = expected(l)

\* C9 witness: a '<'-compared level at the first byte of the top band.
C9_Witness ==
    /\ pc = "returned"
    /\ Len(variations) = 1
    /\ variations[1].approach_key = "parameter_optimization"
    /\ At(quantum_data.random_bytes, 1) = 179
    /\ variations[1].parameters.abstraction = "70.2%"

\* C16: with the 100-byte block of a generate call the cursor has 99
\* positions, and whatever the byte content, none of the five rendering
\* routines reads a position the cursor does not have: no call raises, and
\* the one variation asked for is rendered.
C16_ReadsWithinCursor ==
    /\ pc # "raised"
    /\ pc = "acquired" =>
          LET cursor == Slice1(quantum_data.random_bytes)
          IN /\ Len(quantum_data.random_bytes) = GenerateNumBytes
             /\ Len(cursor) = GenerateNumBytes - 1
             /\ \A k \in 1..Len(ApproachKeys) :
                   RenderReadsOk(ApproachKeys[k], cursor)
    /\ pc = "returned" => Len(variations) = 1

\* C16 witness: a creative-constraints record with four constraints was
\* rendered from a 99-byte cursor.
C16_Witness ==
    /\ pc = "returned"
    /\ Len(variations) = 1
    /\ variations[1].approach_key = "creative_constraints"
    /\ variations[1].parameters.constraint_count = 4
    /\ Len(variations[1].parameters.constraints) = 4
    /\ Len(Slice1(quantum_data.random_bytes)) = GenerateNumBytes - 1

\* C18: for every byte b, the multi-parameter-optimization record holds
\* word count 100 + 4b within 100..1120, example count 1 + b mod 4 within
\* 1..4, perspective count 1 + b mod 3 within 1..3, confidence threshold
\* 60 + b mod 36 within 60..95, and 1 + b mod 3 focus aspects, within 1..3,
\* exactly that many being listed in the parameters and in the text.
C18_BoundedIntegers ==
    (/\ Len(variations) = 1
     /\ variations[1].approach_key = "parameter_optimization")
    => LET b == At(quantum_data.random_bytes, 1)
           p == variations[1].parameters
           text == variations[1].prompt
           n == Len(p.focus_areas)
       IN /\ p.word_count = 100 + 4 * b
          /\ p.word_count \in 100..1120
          /\ p.examples = 1 + (b % 4)
          /\ p.examples \in 1..4
          /\ p.perspectives = 1 + (b % 3)
          /\ p.perspectives \in 1..3
          /\ p.confidence = ToString(60 + (b % 36)) \o "%"
          /\ p.confidence \in {ToString(c) \o "%" : c \in 60..95}
          /\ n = 1 + (b % 3)
          /\ n \in 1..3
          /\ \A f \in 1..n : p.focus_areas[f] \in Range(Aspects)
          /\ \E pos \in DOMAIN text :
                /\ text[pos] = "\n\nPrimary focus areas: "
                /\ \A f \in 1..n : text[pos + 2 * f - 1] = p.focus_areas[f]
                /\ \A f \in 1..(n - 1) : text[pos + 2 * f] = ", "
                /\ pos + 2 * n = Len(text)

\* C18 witness: byte 35 gives the top confidence threshold, four examples
\* and three focus aspects.
C18_Witness ==
    /\ pc = "returned"
    /\ Len(variations) = 1
    /\ variations[1].approach_key = "parameter_optimization"
    /\ At(quantum_data.random_bytes, 1) = 35
    /\ variations[1].parameters.confidence = "95%"
    /\ variations[1].parameters.examples = 4
    /\ Len(variations[1].parameters.focus_areas) = 3

====
